---- MODULE Spec2Model ----
(***************************************************************************)
(* File System Analyzer (src/tool.py): size-string parsing, file           *)
(* classification, permission auditing and the streaming aggregation of    *)
(* analyze_directory / generate_report, as a state machine.                *)
(*                                                                         *)
(* Text is a sequence of one-character strings, a file's bytes a sequence  *)
(* of integers 0..255.  Python ints are unbounded; values that can exceed  *)
(* 2^31 (parse_size results) are kept as base-1024 digit sequences.        *)
(***************************************************************************)
EXTENDS Integers, Sequences, FiniteSets, TLC

VARIABLES
    pc,                 \* position of main(): "main", "constructed", "walk", "scanned",
                        \* "raised", "reported", "exit"; "fn" under SpecFn
    argv,               \* command line: [size_threshold, no_signatures, max_large_files, root]
    exit_code,          \* process exit status, -1 while running
    exc,                \* the exception raised to main, if any; "none" otherwise
    size_threshold,     \* self.size_threshold
    use_signatures,     \* self.use_signatures
    max_large_files,    \* self.max_large_files
    files_by_category,  \* self.files_by_category: category -> sequence of FileInfo
    category_sizes,     \* self.category_sizes: category -> int
    large_files,        \* self.large_files
    permission_issues,  \* self.permission_issues
    total_files,        \* self.total_files
    total_size,         \* self.total_size
    errors,             \* self.errors: sequence of <<path, message>>
    walked,             \* the candidates os.walk has yielded so far, in order
    scan_start,         \* how many of them were yielded before the running (or the
                        \* last) call of analyze_directory began
    report,             \* what generate_report printed, <<>> before it ran
    fn_call,            \* SpecFn: the pure function under evaluation and its arguments
    fn_ret              \* SpecFn: its result, as a sequence of one; empty before the call

vars == << pc, argv, exit_code, exc, size_threshold, use_signatures, max_large_files,
           files_by_category, category_sizes, large_files, permission_issues,
           total_files, total_size, errors, walked, scan_start, report, fn_call, fn_ret >>

-----------------------------------------------------------------------------
(* Bounds of the model *)

\* the longest traversal: os.walk yields at most this many candidate paths
MaxFiles == 3

-----------------------------------------------------------------------------
(* Text helpers: str.upper, str.lower, str.strip, str.endswith *)

Min(a, b) == IF a < b THEN a ELSE b
Max(a, b) == IF a > b THEN a ELSE b

LowerCase == << "a","b","c","d","e","f","g","h","i","j","k","l","m",
                "n","o","p","q","r","s","t","u","v","w","x","y","z" >>
UpperCase == << "A","B","C","D","E","F","G","H","I","J","K","L","M",
                "N","O","P","Q","R","S","T","U","V","W","X","Y","Z" >>
Whitespace == { " ", "\t", "\n", "\r" }
Digits == << "0","1","2","3","4","5","6","7","8","9" >>

IndexIn(c, table) == IF \E i \in DOMAIN table : table[i] = c
                     THEN CHOOSE i \in DOMAIN table : table[i] = c
                     ELSE 0

UpperChar(c) == IF IndexIn(c, LowerCase) > 0 THEN UpperCase[IndexIn(c, LowerCase)] ELSE c
LowerChar(c) == IF IndexIn(c, UpperCase) > 0 THEN LowerCase[IndexIn(c, UpperCase)] ELSE c
Upper(s) == [i \in DOMAIN s |-> UpperChar(s[i])]
Lower(s) == [i \in DOMAIN s |-> LowerChar(s[i])]

RECURSIVE LStrip(_)
LStrip(s) == IF s # <<>> /\ Head(s) \in Whitespace THEN LStrip(Tail(s)) ELSE s
RECURSIVE RStrip(_)
RStrip(s) == IF s # <<>> /\ s[Len(s)] \in Whitespace
             THEN RStrip(SubSeq(s, 1, Len(s) - 1)) ELSE s
Strip(s) == RStrip(LStrip(s))

StartsWith(s, p) == Len(p) <= Len(s) /\ SubSeq(s, 1, Len(p)) = p
EndsWith(s, p) == Len(p) <= Len(s) /\ SubSeq(s, Len(s) - Len(p) + 1, Len(s)) = p

\* the characters of s as one string
RECURSIVE Str(_)
Str(s) == IF s = <<>> THEN "" ELSE Head(s) \o Str(Tail(s))

IsDigit(c) == IndexIn(c, Digits) > 0
AllDigits(s) == \A i \in DOMAIN s : IsDigit(s[i])

\* the value of a digit string (short strings only: the result is below 2^31)
RECURSIVE DigitsValue(_)
DigitsValue(s) == IF s = <<>> THEN 0
                  ELSE 10 * DigitsValue(SubSeq(s, 1, Len(s) - 1)) + (IndexIn(s[Len(s)], Digits) - 1)

RECURSIVE Pow(_, _)
Pow(b, e) == IF e = 0 THEN 1 ELSE b * Pow(b, e - 1)

-----------------------------------------------------------------------------
(* Unbounded integers: [neg, mag], mag the base-1024 digits, most          *)
(* significant first, without leading zeros; zero is [FALSE, <<>>]         *)

RECURSIVE Limbs(_)
Limbs(n) == IF n = 0 THEN <<>> ELSE Append(Limbs(n \div 1024), n % 1024)

RECURSIVE Normalize(_)
Normalize(l) == IF l # <<>> /\ Head(l) = 0 THEN Normalize(Tail(l)) ELSE l

BigInt(neg, mag) == [neg |-> neg /\ Normalize(mag) # <<>>, mag |-> Normalize(mag)]
BigOf(n) == BigInt(n < 0, Limbs(IF n < 0 THEN -n ELSE n))

\* long division of a digit sequence by a small d, the quotient's digits
RECURSIVE DivLimbs(_, _, _, _)
DivLimbs(l, d, rem, acc) ==
    IF l = <<>> THEN acc
    ELSE LET cur == rem * 1024 + Head(l)
         IN  DivLimbs(Tail(l), d, cur % d, Append(acc, cur \div d))

\* fewer than three digits: the int it stands for
SmallValue(b) == LET v == IF Len(b.mag) = 0 THEN 0
                          ELSE IF Len(b.mag) = 1 THEN b.mag[1]
                          ELSE b.mag[1] * 1024 + b.mag[2]
                 IN  IF b.neg THEN -v ELSE v
IsSmall(b) == Len(b.mag) <= 2

-----------------------------------------------------------------------------
(* float(str) and int(str) on the text parse_size hands them *)

Unsigned(s) == IF s # <<>> /\ Head(s) \in {"+", "-"} THEN Tail(s) ELSE s
IsNegative(s) == s # <<>> /\ Head(s) = "-"

DotAt(s) == IndexIn(".", s)

\* float(): optional sign, then digits with at most one point and at least one
\* digit, or inf / infinity / nan; surrounding whitespace is ignored.  A finite
\* value is [neg, mant, scale], standing for mant / 10^scale.
PyFloat(text) ==
    LET t == Strip(text)
        u == Upper(Unsigned(t))
        p == DotAt(u)
        ip == IF p = 0 THEN u ELSE SubSeq(u, 1, p - 1)
        fp == IF p = 0 THEN <<>> ELSE SubSeq(u, p + 1, Len(u))
    IN  IF Str(u) \in {"INF", "INFINITY"} THEN [kind |-> "inf", neg |-> IsNegative(t)]
        ELSE IF Str(u) = "NAN" THEN [kind |-> "nan"]
        ELSE IF AllDigits(ip) /\ AllDigits(fp) /\ Len(ip) + Len(fp) > 0
             THEN [kind |-> "finite", neg |-> IsNegative(t),
                   mant |-> DigitsValue(ip \o fp), scale |-> Len(fp)]
        ELSE [kind |-> "ValueError"]

\* int(): optional sign, then one or more digits; surrounding whitespace ignored
PyInt(text) ==
    LET t == Strip(text)
        u == Unsigned(t)
    IN  IF u # <<>> /\ AllDigits(u)
        THEN [kind |-> "int", value |-> BigInt(IsNegative(t), Limbs(DigitsValue(u)))]
        ELSE [kind |-> "ValueError"]

\* int(number * 1024^exp): the product truncated towards zero
TruncProduct(f, exp) ==
    BigInt(f.neg, DivLimbs(Limbs(f.mant) \o [i \in 1..exp |-> 0], Pow(10, f.scale), 0, <<>>))

-----------------------------------------------------------------------------
(* parse_size *)

\* the multipliers dict in its insertion order; the multiplier is 1024^exp
multipliers == <<
    [suffix |-> <<"B">>,      exp |-> 0],
    [suffix |-> <<"K">>,      exp |-> 1],
    [suffix |-> <<"K", "B">>, exp |-> 1],
    [suffix |-> <<"M">>,      exp |-> 2],
    [suffix |-> <<"M", "B">>, exp |-> 2],
    [suffix |-> <<"G">>,      exp |-> 3],
    [suffix |-> <<"G", "B">>, exp |-> 3],
    [suffix |-> <<"T">>,      exp |-> 4],
    [suffix |-> <<"T", "B">>, exp |-> 4] >>

\* the plain-number attempt after the loop
ParsePlain(s) == PyInt(s)

\* the loop over multipliers from entry i on: the first suffix the text ends
\* with decides; a number that does not parse breaks out to the plain attempt
RECURSIVE ParseFrom(_, _)
ParseFrom(s, i) ==
    IF i > Len(multipliers) THEN ParsePlain(s)
    ELSE IF EndsWith(s, multipliers[i].suffix)
         THEN LET number == PyFloat(SubSeq(s, 1, Len(s) - Len(multipliers[i].suffix)))
              IN  IF number.kind = "finite"
                  THEN [kind |-> "int", value |-> TruncProduct(number, multipliers[i].exp)]
                  ELSE IF number.kind = "inf" THEN [kind |-> "OverflowError"]
                  ELSE ParsePlain(s)
         ELSE ParseFrom(s, i + 1)

parse_size(size_str) == ParseFrom(Upper(Strip(size_str)), 1)

-----------------------------------------------------------------------------
(* Classification: FileCategory, the two tables, detect_file_signature,    *)
(* _is_text_content, get_file_category                                     *)

FileCategory == { "text", "image", "executable", "archive", "document",
                  "video", "audio", "config", "application", "other" }

\* Python's None, for Optional[str] and Optional[FileCategory]
None == "<None>"
\* truth value of an Optional[str] / Optional[FileCategory]
Truthy(x) == x # None /\ x # ""

EXTENSION_MAP == {
    [suffix |-> ".txt", category |-> "text"], [suffix |-> ".md", category |-> "text"],
    [suffix |-> ".py", category |-> "text"], [suffix |-> ".js", category |-> "text"],
    [suffix |-> ".html", category |-> "text"], [suffix |-> ".css", category |-> "text"],
    [suffix |-> ".json", category |-> "text"], [suffix |-> ".xml", category |-> "text"],
    [suffix |-> ".csv", category |-> "text"], [suffix |-> ".log", category |-> "text"],
    [suffix |-> ".jpg", category |-> "image"], [suffix |-> ".jpeg", category |-> "image"],
    [suffix |-> ".png", category |-> "image"], [suffix |-> ".gif", category |-> "image"],
    [suffix |-> ".bmp", category |-> "image"], [suffix |-> ".svg", category |-> "image"],
    [suffix |-> ".ico", category |-> "image"], [suffix |-> ".webp", category |-> "image"],
    [suffix |-> ".exe", category |-> "executable"], [suffix |-> ".bin", category |-> "executable"],
    [suffix |-> ".sh", category |-> "executable"], [suffix |-> ".bat", category |-> "executable"],
    [suffix |-> ".com", category |-> "executable"], [suffix |-> ".msi", category |-> "executable"],
    [suffix |-> ".zip", category |-> "archive"], [suffix |-> ".tar", category |-> "archive"],
    [suffix |-> ".gz", category |-> "archive"], [suffix |-> ".rar", category |-> "archive"],
    [suffix |-> ".7z", category |-> "archive"], [suffix |-> ".bz2", category |-> "archive"],
    [suffix |-> ".xz", category |-> "archive"], [suffix |-> ".pdf", category |-> "document"],
    [suffix |-> ".doc", category |-> "document"], [suffix |-> ".docx", category |-> "document"],
    [suffix |-> ".xls", category |-> "document"], [suffix |-> ".xlsx", category |-> "document"],
    [suffix |-> ".ppt", category |-> "document"], [suffix |-> ".pptx", category |-> "document"],
    [suffix |-> ".mp4", category |-> "video"], [suffix |-> ".avi", category |-> "video"],
    [suffix |-> ".mkv", category |-> "video"], [suffix |-> ".mov", category |-> "video"],
    [suffix |-> ".wmv", category |-> "video"], [suffix |-> ".flv", category |-> "video"],
    [suffix |-> ".webm", category |-> "video"], [suffix |-> ".mp3", category |-> "audio"],
    [suffix |-> ".wav", category |-> "audio"], [suffix |-> ".flac", category |-> "audio"],
    [suffix |-> ".aac", category |-> "audio"], [suffix |-> ".ogg", category |-> "audio"],
    [suffix |-> ".wma", category |-> "audio"], [suffix |-> ".conf", category |-> "config"],
    [suffix |-> ".cfg", category |-> "config"], [suffix |-> ".ini", category |-> "config"],
    [suffix |-> ".yaml", category |-> "config"], [suffix |-> ".yml", category |-> "config"],
    [suffix |-> ".toml", category |-> "config"] }

\* EXTENSION_MAP.get(suffix, FileCategory.OTHER), suffix a string
ExtensionCategory(suffix) ==
    IF \E e \in EXTENSION_MAP : e.suffix = suffix
    THEN (CHOOSE e \in EXTENSION_MAP : e.suffix = suffix).category
    ELSE "other"

\* a table in which a generic 2-byte PK entry is listed before the 4-byte one
FILE_SIGNATURES_GenericFirst == <<
    [signature |-> << 255, 216, 255 >>, category |-> "image"],
    [signature |-> << 80, 75 >>, category |-> "document"],
    [signature |-> << 80, 75, 3, 4 >>, category |-> "archive"],
    [signature |-> << 82, 73, 70, 70 >>, category |-> "audio"] >>

\* the FILE_SIGNATURES dict in its insertion order
FILE_SIGNATURES == <<
    [signature |-> << 255, 216, 255 >>, category |-> "image"],                  \* JPEG
    [signature |-> << 137, 80, 78, 71, 13, 10, 26, 10 >>, category |-> "image"], \* PNG
    [signature |-> << 71, 73, 70, 56, 55, 97 >>, category |-> "image"],          \* GIF87a
    [signature |-> << 71, 73, 70, 56, 57, 97 >>, category |-> "image"],          \* GIF89a
    [signature |-> << 66, 77 >>, category |-> "image"],                          \* BM
    [signature |-> << 0, 0, 1, 0 >>, category |-> "image"],                      \* ICO
    [signature |-> << 80, 75, 3, 4 >>, category |-> "archive"],                  \* PK 03 04
    [signature |-> << 80, 75, 5, 6 >>, category |-> "archive"],                  \* PK 05 06
    [signature |-> << 80, 75, 7, 8 >>, category |-> "archive"],                  \* PK 07 08
    [signature |-> << 31, 139 >>, category |-> "archive"],                       \* GZIP
    [signature |-> << 66, 90, 104 >>, category |-> "archive"],                   \* BZh
    [signature |-> << 37, 80, 68, 70 >>, category |-> "document"],               \* %PDF
    [signature |-> << 208, 207, 17, 224, 161, 177, 26, 225 >>, category |-> "document"],
    [signature |-> << 77, 90 >>, category |-> "executable"],                     \* MZ
    [signature |-> << 127, 69, 76, 70 >>, category |-> "executable"],            \* ELF
    [signature |-> << 254, 237, 250, 206 >>, category |-> "executable"],
    [signature |-> << 254, 237, 250, 207 >>, category |-> "executable"],
    [signature |-> << 202, 254, 186, 190 >>, category |-> "executable"],
    [signature |-> << 206, 250, 237, 254 >>, category |-> "executable"],
    [signature |-> << 207, 250, 237, 254 >>, category |-> "executable"],
    [signature |-> << 73, 68, 51 >>, category |-> "audio"],                      \* ID3
    [signature |-> << 255, 251 >>, category |-> "audio"],                        \* MP3
    [signature |-> << 79, 103, 103, 83 >>, category |-> "audio"],                \* OggS
    [signature |-> << 82, 73, 70, 70 >>, category |-> "audio"],                  \* RIFF
    [signature |-> << 102, 76, 97, 67 >>, category |-> "audio"] >>               \* fLaC

RIFF == << 82, 73, 70, 70 >>
WAVE == << 87, 65, 86, 69 >>
AVI  == << 65, 86, 73, 32 >>
ftyp == << 102, 116, 121, 112 >>
\* the ftyp brands of the two match statements: mp41 mp42 isom "f4v " "F4V " "M4V ", and "M4A "
VideoBrands == { << 109, 112, 52, 49 >>, << 109, 112, 52, 50 >>, << 105, 115, 111, 109 >>,
                 << 102, 52, 118, 32 >>, << 70, 52, 86, 32 >>, << 77, 52, 86, 32 >> }
AudioBrands == { << 77, 52, 65, 32 >> }

\* a slice data[from:to] of Python (0-based, end exclusive, clipped to the data)
Slice(data, from, to) == SubSeq(data, from + 1, Min(to, Len(data)))

\* f.read(32)
ReadHeader(content) == Slice(content, 0, 32)

\* text_chars: set(range(32, 127)) | {9, 10, 13}
text_chars == (32..126) \cup {9, 10, 13}

\* sum(1 for byte in data if byte in text_chars)
printable_count(data) == Cardinality({ i \in DOMAIN data : data[i] \in text_chars })

\* is_text_content with text_chars short of tab, newline and carriage return
is_text_content_no_whitespace(data) ==
    IF data = <<>> THEN FALSE
    ELSE IF Slice(data, 0, 3) = << 239, 187, 191 >> THEN TRUE
    ELSE IF Slice(data, 0, 3) \in { << 255, 254 >>, << 254, 255 >> } THEN TRUE
    ELSE 20 * Cardinality({ i \in DOMAIN data : data[i] \in 32..126 }) > 17 * Len(data)

\* The match on data[:3]: the UTF-8 mark is three bytes; a UTF-16 mark equals
\* data[:3] only when the data is those two bytes and nothing else.  The last
\* line is printable_count / len(data) > 0.85: both operands of the division
\* are below 2^53 and the quotient is rounded as the literal 0.85 is, so the
\* comparison is the one of the exact fractions, 20 * count > 17 * len.
is_text_content(data) ==
    IF data = <<>> THEN FALSE
    ELSE IF Slice(data, 0, 3) = << 239, 187, 191 >> THEN TRUE
    ELSE IF Slice(data, 0, 3) \in { << 255, 254 >>, << 254, 255 >> } THEN TRUE
    ELSE 20 * printable_count(data) > 17 * Len(data)

\* the loop over FILE_SIGNATURES from entry i on: the first signature the header
\* starts with returns; None when no entry matches
RECURSIVE SignatureFrom(_, _)
SignatureFrom(header, i) ==
    IF i > Len(FILE_SIGNATURES) THEN None
    ELSE IF StartsWith(header, FILE_SIGNATURES[i].signature)
         THEN IF FILE_SIGNATURES[i].signature = RIFF /\ Len(header) >= 12
                 /\ Slice(header, 8, 12) = WAVE THEN "audio"
              ELSE IF FILE_SIGNATURES[i].signature = RIFF /\ Len(header) >= 12
                      /\ Slice(header, 8, 12) = AVI THEN "video"
              ELSE FILE_SIGNATURES[i].category
         ELSE SignatureFrom(header, i + 1)

\* the ftyp box check; None when it does not decide
Mp4Category(header) ==
    IF Len(header) >= 12 /\ Slice(header, 4, 8) = ftyp
    THEN IF Slice(header, 8, 12) \in VideoBrands THEN "video"
         ELSE IF Slice(header, 8, 12) \in AudioBrands THEN "audio"
         ELSE None
    ELSE None

\* detect_file_signature on a file whose open succeeds (open_ok) or raises
\* OSError, and whose bytes are content
detect_file_signature(open_ok, content) ==
    IF ~open_ok THEN None
    ELSE LET header == ReadHeader(content)
         IN  IF header = <<>> THEN None
             ELSE IF SignatureFrom(header, 1) # None THEN SignatureFrom(header, 1)
             ELSE IF Mp4Category(header) # None THEN Mp4Category(header)
             ELSE IF is_text_content(header) THEN "text"
             ELSE None

\* index of the last "." of a name, 0 when there is none
RECURSIVE LastDot(_)
LastDot(name) == IF name = <<>> THEN 0
                 ELSE IF name[Len(name)] = "." THEN Len(name)
                 ELSE LastDot(SubSeq(name, 1, Len(name) - 1))

\* pathlib's PurePath.suffix of a file name
PathSuffix(name) == IF 1 < LastDot(name) /\ LastDot(name) < Len(name)
                    THEN SubSeq(name, LastDot(name), Len(name)) ELSE <<>>

\* get_file_category asking the extension table first
get_file_category_extension_first(signatures, name, open_ok, content) ==
    IF ExtensionCategory(Str(Lower(PathSuffix(name)))) # "other"
    THEN ExtensionCategory(Str(Lower(PathSuffix(name))))
    ELSE IF signatures /\ Truthy(detect_file_signature(open_ok, content))
    THEN detect_file_signature(open_ok, content)
    ELSE "other"

get_file_category(signatures, name, open_ok, content) ==
    IF signatures /\ Truthy(detect_file_signature(open_ok, content))
    THEN detect_file_signature(open_ok, content)
    ELSE ExtensionCategory(Str(Lower(PathSuffix(name))))

-----------------------------------------------------------------------------
(* Permission audit: check_permissions *)

S_IWOTH == 2
S_IXUSR == 64
S_ISGID == 1024
S_ISUID == 2048
S_IFREG == 32768
S_IFDIR == 16384

\* mode & bit, for a single bit
HasBit(mode, bit) == (mode \div bit) % 2 = 1
\* stat.S_ISREG: the file-type bits of the mode are S_IFREG
S_ISREG(mode) == (mode \div 4096) % 16 = S_IFREG \div 4096

SUSPICIOUS_EXECUTABLE_EXTENSIONS == { ".txt", ".log", ".conf", ".cfg", ".ini" }

\* sep.join(items)
RECURSIVE Join(_, _)
Join(sep, items) == IF items = <<>> THEN ""
                    ELSE IF Len(items) = 1 THEN items[1]
                    ELSE items[1] \o sep \o Join(sep, Tail(items))

\* PermissionTags with the SUID and SGID rules in the other order
PermissionTagsSgidFirst(name, mode) ==
    (IF HasBit(mode, S_IWOTH) THEN << "world-writable" >> ELSE <<>>)
    \o (IF HasBit(mode, S_ISGID) THEN << "SGID" >> ELSE <<>>)
    \o (IF HasBit(mode, S_ISUID) THEN << "SUID" >> ELSE <<>>)
    \o (IF HasBit(mode, S_IXUSR)
           /\ Str(Lower(PathSuffix(name))) \in SUSPICIOUS_EXECUTABLE_EXTENSIONS
        THEN << "suspicious-executable" >> ELSE <<>>)

\* the issues list as the four appends build it
PermissionTags(name, mode) ==
    (IF HasBit(mode, S_IWOTH) THEN << "world-writable" >> ELSE <<>>)
    \o (IF HasBit(mode, S_ISUID) THEN << "SUID" >> ELSE <<>>)
    \o (IF HasBit(mode, S_ISGID) THEN << "SGID" >> ELSE <<>>)
    \o (IF HasBit(mode, S_IXUSR)
           /\ Str(Lower(PathSuffix(name))) \in SUSPICIOUS_EXECUTABLE_EXTENSIONS
        THEN << "suspicious-executable" >> ELSE <<>>)

check_permissions(name, mode) ==
    IF PermissionTags(name, mode) # <<>> THEN Join(", ", PermissionTags(name, mode)) ELSE None

-----------------------------------------------------------------------------
(* Python containers *)

\* d[k] of a defaultdict whose missing keys read as dflt
DefaultGet(d, k, dflt) == IF k \in DOMAIN d THEN d[k] ELSE dflt
\* d[k] = v
DictSet(d, k, v) == [x \in DOMAIN d \cup {k} |-> IF x = k THEN v ELSE d[x]]

\* seq[:n], n of either sign
SliceTo(seq, n) == IF n >= 0 THEN SubSeq(seq, 1, Min(n, Len(seq)))
                   ELSE SubSeq(seq, 1, Max(Len(seq) + n, 0))

\* x put into a sequence sorted by descending size, behind the elements whose
\* size is at least its own
\* an insertion that puts a record before the records of equal size
InsertDescUnstable(sorted, x) ==
    LET n == Cardinality({ i \in DOMAIN sorted : sorted[i].size > x.size })
    IN  SubSeq(sorted, 1, n) \o << x >> \o SubSeq(sorted, n + 1, Len(sorted))

InsertDesc(sorted, x) ==
    LET n == Cardinality({ i \in DOMAIN sorted : sorted[i].size >= x.size })
    IN  SubSeq(sorted, 1, n) \o << x >> \o SubSeq(sorted, n + 1, Len(sorted))

\* sorted(..., reverse=True) and list.sort(reverse=True) on the size key:
\* descending, equal keys keep their order
RECURSIVE SortDesc(_)
SortDesc(seq) ==
    IF seq = <<>> THEN <<>>
    ELSE InsertDesc(SortDesc(SubSeq(seq, 1, Len(seq) - 1)), seq[Len(seq)])

\* comparison of unbounded integers: a < b
RECURSIVE MagLess(_, _)
MagLess(a, b) == IF Len(a) # Len(b) THEN Len(a) < Len(b)
                 ELSE IF a = <<>> THEN FALSE
                 ELSE IF Head(a) # Head(b) THEN Head(a) < Head(b)
                 ELSE MagLess(Tail(a), Tail(b))
BigLess(a, b) == IF a.neg # b.neg THEN a.neg
                 ELSE IF a.neg THEN MagLess(b.mag, a.mag)
                 ELSE MagLess(a.mag, b.mag)

-----------------------------------------------------------------------------
(* The file system the traversal meets *)

\* names
N_gone  == << "g","o","n","e",".","t","x","t" >>
N_pipe  == << "p","i","p","e" >>
N_a_txt == << "a",".","t","x","t" >>
N_b_DOC == << "b",".","D","O","C" >>
N_run   == << "r","u","n",".","i","n","i" >>
N_noext == << "n","o","e","x","t" >>
N_big   == << "b","i","g",".","b","i","n" >>

\* contents
PNG_bytes  == << 137, 80, 78, 71, 13, 10, 26, 10, 0, 0, 0, 13 >>
Text_bytes == << 104, 105, 10 >>                     \* "hi\n"
BMW_bytes  == << 66, 77, 87, 32, 99, 97, 114 >>      \* "BMW car"
Bin_bytes  == << 0, 1, 2, 3, 200, 201 >>

\* what os.walk can yield as a file name of a directory: the outcome of its
\* stat ("ok" or the OSError's message), st_mode, st_size, whether open()
\* succeeds, and the bytes
CandidateFiles == {
    [name |-> N_gone,  stat |-> "ENOENT", mode |-> 0, size |-> 0,
     open_ok |-> FALSE, content |-> <<>>],
    [name |-> N_pipe,  stat |-> "ok", mode |-> S_IFDIR + 493, size |-> 1025,     \* 040755
     open_ok |-> FALSE, content |-> <<>>],
    [name |-> N_a_txt, stat |-> "ok", mode |-> S_IFREG + 420, size |-> 1024,     \* 100644
     open_ok |-> TRUE,  content |-> Text_bytes],
    [name |-> N_b_DOC, stat |-> "ok", mode |-> S_IFREG + 438, size |-> 1025,     \* 100666
     open_ok |-> TRUE,  content |-> PNG_bytes],
    [name |-> N_run,   stat |-> "ok", mode |-> S_IFREG + S_ISUID + 493, size |-> 3,  \* 104755
     open_ok |-> FALSE, content |-> Text_bytes],
    [name |-> N_noext, stat |-> "ok", mode |-> S_IFREG + 420, size |-> 2,        \* 100644
     open_ok |-> TRUE,  content |-> BMW_bytes],
    [name |-> N_big,   stat |-> "ok", mode |-> S_IFREG + 420, size |-> 1025,     \* 100644
     open_ok |-> TRUE,  content |-> Bin_bytes] }

\* the --size-threshold arguments tried: "1K", "2", "1KB"
ThresholdArgs == { << "1", "K" >>, << "2" >>, << "1", "K", "B" >> }
\* the --max-large-files arguments tried
MaxLargeArgs == { -1, 1, 2 }
\* what the directory argument names
RootKinds == { "missing", "file", "dir" }

-----------------------------------------------------------------------------
(* FileSystemAnalyzer *)

FileInfo(path, size, category, permissions_issue) ==
    [path |-> path, size |-> size, category |-> category,
     permissions_issue |-> permissions_issue]

\* the results storage of an analyzer, as one record
ScanState == [ files_by_category |-> files_by_category,
               category_sizes    |-> category_sizes,
               large_files       |-> large_files,
               permission_issues |-> permission_issues,
               total_files       |-> total_files,
               total_size        |-> total_size,
               errors            |-> errors ]

\* the results storage __init__ builds
EmptyScanState == [ files_by_category |-> <<>>,
                    category_sizes    |-> <<>>,
                    large_files       |-> <<>>,
                    permission_issues |-> <<>>,
                    total_files       |-> 0,
                    total_size        |-> 0,
                    errors            |-> <<>> ]

\* analyze_file swallowing a failed stat without recording it
analyze_file_silent(errs, signatures, path, cand) ==
    IF cand.stat # "ok" \/ ~S_ISREG(cand.mode)
    THEN [ret |-> <<>>, errors |-> errs]
    ELSE [ret |-> << FileInfo(path, cand.size,
                              get_file_category(signatures, cand.name, cand.open_ok,
                                                cand.content),
                              check_permissions(cand.name, cand.mode)) >>,
          errors |-> errs]

\* analyze_file without the S_ISREG test
analyze_file_any_type(errs, signatures, path, cand) ==
    IF cand.stat # "ok"
    THEN [ret |-> <<>>, errors |-> Append(errs, << path, cand.stat >>)]
    ELSE [ret |-> << FileInfo(path, cand.size,
                              get_file_category(signatures, cand.name, cand.open_ok,
                                                cand.content),
                              check_permissions(cand.name, cand.mode)) >>,
          errors |-> errs]

\* analyze_file: the Optional[FileInfo] it returns, as a sequence of none or
\* one, and self.errors as it leaves it
analyze_file(errs, signatures, path, cand) ==
    IF cand.stat # "ok"
    THEN [ret |-> <<>>, errors |-> Append(errs, << path, cand.stat >>)]
    ELSE IF ~S_ISREG(cand.mode)
    THEN [ret |-> <<>>, errors |-> errs]
    ELSE [ret |-> << FileInfo(path, cand.size,
                              get_file_category(signatures, cand.name, cand.open_ok,
                                                cand.content),
                              check_permissions(cand.name, cand.mode)) >>,
          errors |-> errs]

\* Accept without the category_sizes update
AcceptNoCategorySize(S, threshold, file_info) ==
    [ S EXCEPT
        !.total_files = @ + 1,
        !.total_size = @ + file_info.size,
        !.files_by_category =
            DictSet(@, file_info.category,
                    Append(DefaultGet(@, file_info.category, <<>>), file_info)),
        !.category_sizes = DictSet(@, file_info.category, DefaultGet(@, file_info.category, 0)),
        !.large_files =
            IF BigLess(threshold, BigOf(file_info.size)) THEN Append(@, file_info) ELSE @,
        !.permission_issues =
            IF Truthy(file_info.permissions_issue) THEN Append(@, file_info) ELSE @ ]

\* Accept with size >= threshold for size > threshold
AcceptAtThreshold(S, threshold, file_info) ==
    [ S EXCEPT
        !.total_files = @ + 1,
        !.total_size = @ + file_info.size,
        !.files_by_category =
            DictSet(@, file_info.category,
                    Append(DefaultGet(@, file_info.category, <<>>), file_info)),
        !.category_sizes =
            DictSet(@, file_info.category,
                    DefaultGet(@, file_info.category, 0) + file_info.size),
        !.large_files =
            IF ~BigLess(BigOf(file_info.size), threshold) THEN Append(@, file_info) ELSE @,
        !.permission_issues =
            IF Truthy(file_info.permissions_issue) THEN Append(@, file_info) ELSE @ ]

\* Accept that puts a large file at the head of large_files
AcceptPrepend(S, threshold, file_info) ==
    [ S EXCEPT
        !.total_files = @ + 1,
        !.total_size = @ + file_info.size,
        !.files_by_category =
            DictSet(@, file_info.category,
                    Append(DefaultGet(@, file_info.category, <<>>), file_info)),
        !.category_sizes =
            DictSet(@, file_info.category,
                    DefaultGet(@, file_info.category, 0) + file_info.size),
        !.large_files =
            IF BigLess(threshold, BigOf(file_info.size)) THEN << file_info >> \o @ ELSE @,
        !.permission_issues =
            IF Truthy(file_info.permissions_issue) THEN Append(@, file_info) ELSE @ ]

\* the body of "if file_info:" in analyze_directory
Accept(S, threshold, file_info) ==
    [ S EXCEPT
        !.total_files = @ + 1,
        !.total_size = @ + file_info.size,
        !.files_by_category =
            DictSet(@, file_info.category,
                    Append(DefaultGet(@, file_info.category, <<>>), file_info)),
        !.category_sizes =
            DictSet(@, file_info.category,
                    DefaultGet(@, file_info.category, 0) + file_info.size),
        !.large_files =
            IF BigLess(threshold, BigOf(file_info.size)) THEN Append(@, file_info) ELSE @,
        !.permission_issues =
            IF Truthy(file_info.permissions_issue) THEN Append(@, file_info) ELSE @ ]

\* one iteration of "for file_name in files"
LoopBody(S, threshold, signatures, path, cand) ==
    LET r == analyze_file(S.errors, signatures, path, cand)
        S1 == [S EXCEPT !.errors = r.errors]
    IN  IF r.ret # <<>> THEN Accept(S1, threshold, r.ret[1]) ELSE S1

\* RootCheck without the is_dir test
RootCheckExistsOnly(root) == IF root = "missing" THEN "FileNotFoundError" ELSE "ok"

\* the two checks analyze_directory opens with
RootCheck(root) == IF root = "missing" THEN "FileNotFoundError"
                   ELSE IF root # "dir" THEN "NotADirectoryError"
                   ELSE "ok"

\* the keys of files_by_category in insertion order: a key enters with its
\* first record, and paths are numbered in traversal order
FirstPath(S, c) == S.files_by_category[c][1].path
RECURSIVE KeysInOrder(_, _)
KeysInOrder(S, keys) ==
    IF keys = {} THEN <<>>
    ELSE LET c == CHOOSE k \in keys : \A o \in keys : FirstPath(S, k) <= FirstPath(S, o)
         IN  << c >> \o KeysInOrder(S, keys \ {c})

CategoryRow(S, c) == [category |-> c, count |-> Len(S.files_by_category[c]),
                      size |-> S.category_sizes[c]]

\* the permission issues section: per issue string the members shown and the
\* count behind "... and N more" (0 when the line is not printed)
IssueGroups(S) ==
    LET members == SelectSeq(S.permission_issues, LAMBDA f : Truthy(f.permissions_issue))
        types == { members[i].permissions_issue : i \in DOMAIN members }
        group(t) == SelectSeq(members, LAMBDA f : f.permissions_issue = t)
    IN  [t \in types |-> [shown |-> SliceTo(group(t), 5),
                          more |-> IF Len(group(t)) > 5 THEN Len(group(t)) - 5 ELSE 0]]

\* generate_report: what it prints, from the storage S with large_files
\* already sorted; more and more_errors are the counts of the "... and N more"
\* lines, 0 when the line is not printed (the large files line is printed only
\* under "if self.large_files")
ReportOf(S, max_large) ==
    [ total_files |-> S.total_files,
      total_size  |-> S.total_size,
      categories  |-> SortDesc([i \in 1..Cardinality(DOMAIN S.files_by_category) |->
                                   CategoryRow(S, KeysInOrder(S, DOMAIN S.files_by_category)[i])]),
      large       |-> SliceTo(S.large_files, max_large),
      more        |-> IF S.large_files # <<>> /\ Len(S.large_files) > max_large
                      THEN Len(S.large_files) - max_large ELSE 0,
      issues      |-> IssueGroups(S),
      errors      |-> SliceTo(S.errors, 10),
      more_errors |-> IF Len(S.errors) > 10 THEN Len(S.errors) - 10 ELSE 0 ]

\* self.large_files.sort(key=lambda x: x.size, reverse=True), run only when
\* the list is not empty
SortLargeFiles(S) == [S EXCEPT !.large_files = SortDesc(@)]

-----------------------------------------------------------------------------
(* main() as a state machine *)

Init ==
    /\ pc = "main"
    /\ argv \in [ size_threshold : ThresholdArgs, no_signatures : BOOLEAN,
                  max_large_files : MaxLargeArgs, root : RootKinds ]
    /\ exit_code = -1
    /\ exc = "none"
    /\ size_threshold = BigOf(0)
    /\ use_signatures = TRUE
    /\ max_large_files = 0
    /\ files_by_category = EmptyScanState.files_by_category
    /\ category_sizes = EmptyScanState.category_sizes
    /\ large_files = EmptyScanState.large_files
    /\ permission_issues = EmptyScanState.permission_issues
    /\ total_files = EmptyScanState.total_files
    /\ total_size = EmptyScanState.total_size
    /\ errors = EmptyScanState.errors
    /\ walked = <<>>
    /\ scan_start = 0
    /\ report = <<>>
    /\ fn_call = <<>>
    /\ fn_ret = <<>>

SetScanState(S) ==
    /\ files_by_category' = S.files_by_category
    /\ category_sizes' = S.category_sizes
    /\ large_files' = S.large_files
    /\ permission_issues' = S.permission_issues
    /\ total_files' = S.total_files
    /\ total_size' = S.total_size
    /\ errors' = S.errors

\* main up to the analyzer's construction: a size that does not parse prints
\* the error and exits 1 (an exception other than ValueError is not caught and
\* ends the process with status 1 as well)
MainParse ==
    /\ pc = "main"
    /\ LET parsed == parse_size(argv.size_threshold)
       IN  IF parsed.kind # "int"
           THEN /\ pc' = "exit"
                /\ exit_code' = 1
                /\ exc' = parsed.kind
                /\ UNCHANGED << size_threshold, use_signatures, max_large_files >>
           ELSE /\ pc' = "constructed"
                /\ size_threshold' = parsed.value
                /\ use_signatures' = ~argv.no_signatures
                /\ max_large_files' = argv.max_large_files
                /\ UNCHANGED << exit_code, exc >>
    /\ SetScanState(EmptyScanState)
    /\ UNCHANGED << argv, walked, scan_start, report, fn_call, fn_ret >>

\* analyze_directory up to the loop: the root checks
AnalyzeDirectory ==
    /\ pc = "constructed"
    /\ IF RootCheck(argv.root) # "ok"
       THEN pc' = "raised" /\ exc' = RootCheck(argv.root)
       ELSE pc' = "walk" /\ exc' = exc
    /\ UNCHANGED << argv, exit_code, size_threshold, use_signatures, max_large_files,
                    files_by_category, category_sizes, large_files, permission_issues,
                    total_files, total_size, errors, walked, scan_start, report, fn_call, fn_ret >>

\* one candidate of the traversal: analyze_file and the aggregation.  os.walk
\* yields files only under a root that is a directory.
WalkFile ==
    /\ pc = "walk"
    /\ argv.root = "dir"
    /\ Len(walked) < MaxFiles
    /\ \E cand \in CandidateFiles :
         /\ walked' = Append(walked, cand)
         /\ SetScanState(LoopBody(ScanState, size_threshold, use_signatures,
                                  Len(walked) + 1, cand))
    /\ UNCHANGED << pc, argv, exit_code, exc, size_threshold, use_signatures,
                    max_large_files, scan_start, report, fn_call, fn_ret >>

\* the traversal is exhausted and analyze_directory returns
WalkDone ==
    /\ pc = "walk"
    /\ pc' = "scanned"
    /\ UNCHANGED << argv, exit_code, exc, size_threshold, use_signatures, max_large_files,
                    files_by_category, category_sizes, large_files, permission_issues,
                    total_files, total_size, errors, walked, scan_start, report, fn_call, fn_ret >>

GenerateReport ==
    /\ pc = "scanned"
    /\ LET S == IF large_files # <<>> THEN SortLargeFiles(ScanState) ELSE ScanState
       IN  /\ SetScanState(S)
           /\ report' = << ReportOf(S, max_large_files) >>
    /\ pc' = "reported"
    /\ UNCHANGED << argv, exit_code, exc, size_threshold, use_signatures, max_large_files,
                    walked, scan_start, fn_call, fn_ret >>

\* main returns after the report
MainReturn ==
    /\ pc = "reported"
    /\ pc' = "exit"
    /\ exit_code' = 0
    /\ UNCHANGED << argv, exc, size_threshold, use_signatures, max_large_files,
                    files_by_category, category_sizes, large_files, permission_issues,
                    total_files, total_size, errors, walked, scan_start, report, fn_call, fn_ret >>

\* main's handler of FileNotFoundError and NotADirectoryError
MainExcept ==
    /\ pc = "raised"
    /\ pc' = "exit"
    /\ exit_code' = 1
    /\ UNCHANGED << argv, exc, size_threshold, use_signatures, max_large_files,
                    files_by_category, category_sizes, large_files, permission_issues,
                    total_files, total_size, errors, walked, scan_start, report, fn_call, fn_ret >>

Next == \/ MainParse
        \/ AnalyzeDirectory
        \/ WalkFile
        \/ WalkDone
        \/ GenerateReport
        \/ MainReturn
        \/ MainExcept

Spec == Init /\ [][Next]_vars

\* ---- the analyzer used as an object: constructed once, its methods called
\* ---- by the caller any number of times

\* the analyzer as __init__ leaves it, with arguments a caller may pass
InitLib ==
    /\ pc = "constructed"
    /\ argv \in [ size_threshold : ThresholdArgs, no_signatures : BOOLEAN,
                  max_large_files : MaxLargeArgs, root : RootKinds ]
    /\ parse_size(argv.size_threshold).kind = "int"
    /\ exit_code = -1
    /\ exc = "none"
    /\ size_threshold = parse_size(argv.size_threshold).value
    /\ use_signatures = ~argv.no_signatures
    /\ max_large_files = argv.max_large_files
    /\ files_by_category = EmptyScanState.files_by_category
    /\ category_sizes = EmptyScanState.category_sizes
    /\ large_files = EmptyScanState.large_files
    /\ permission_issues = EmptyScanState.permission_issues
    /\ total_files = EmptyScanState.total_files
    /\ total_size = EmptyScanState.total_size
    /\ errors = EmptyScanState.errors
    /\ walked = <<>>
    /\ scan_start = 0
    /\ report = <<>>
    /\ fn_call = <<>>
    /\ fn_ret = <<>>

\* a further call of analyze_directory on the same analyzer, after an earlier
\* call has returned: the root checks, then the loop over what os.walk yields.
\* The method assigns none of the result fields before the loop.
AnalyzeDirectoryAgain ==
    /\ pc \in { "scanned", "reported" }
    /\ IF RootCheck(argv.root) # "ok"
       THEN pc' = "raised" /\ exc' = RootCheck(argv.root)
       ELSE pc' = "walk" /\ exc' = exc
    /\ scan_start' = Len(walked)
    /\ UNCHANGED << argv, exit_code, size_threshold, use_signatures, max_large_files,
                    files_by_category, category_sizes, large_files, permission_issues,
                    total_files, total_size, errors, walked, report, fn_call, fn_ret >>

NextLib == \/ AnalyzeDirectory
           \/ WalkFile
           \/ WalkDone
           \/ GenerateReport
           \/ AnalyzeDirectoryAgain

SpecLib == InitLib /\ [][NextLib]_vars

-----------------------------------------------------------------------------
(* The pure functions on their own: SpecFn draws one call and evaluates it *)

\* the longest tail tried behind a signature
MaxTail == 2

\* size strings: a number part, a unit part, bare or padded with blanks
NumberParts == {
    <<>>, << "0" >>, << "1" >>, << "1", "0" >>, << "1", ".", "5" >>, << "2", ".", "5" >>,
    << ".", "5" >>, << "1", "." >>, << "-", "1", ".", "5" >>, << "+", "2" >>,
    << "1", ".", "5", ".", "1" >>, << "X" >>, << "n", "a", "n" >>, << "i", "n", "f" >> }
UnitParts == {
    <<>>, << "B" >>, << "K" >>, << "K", "B" >>, << "M" >>, << "M", "B" >>, << "G" >>,
    << "G", "B" >>, << "T" >>, << "T", "B" >>, << "b" >>, << "k" >>, << "k", "b" >>,
    << "m", "b" >>, << "G", "b" >>, << "t", "B" >>, << "X" >>, << "B", "K" >> }
SizeStrings ==
    { n \o u : n \in NumberParts, u \in UnitParts }
    \cup { << " " >> \o n \o u \o << " " >> : n \in NumberParts, u \in UnitParts }
    \cup {
    << "i", "n", "v", "a", "l", "i", "d" >>, << "1", "0", "X" >>, << "M", "B", "1", "0" >>,
    << "1", "0", "2", "4" >>, << "1", "0", "0", "0", "0", "0", "0" >> }

\* file names
FileNames == {
    << "n", "o", "e", "x", "t" >>, << ".", "h", "i", "d", "d", "e", "n" >>,
    << "a", ".", "t", "x", "t" >>, << "b", ".", "D", "O", "C" >>,
    << "c", ".", "p", "n", "g" >>, << "d", ".", "x", "y", "z" >>,
    << "e", ".", "t", "a", "r", ".", "g", "z" >>, << "f", "." >>,
    << "r", "u", "n", ".", "i", "n", "i" >>, << "x", ".", "L", "o", "g" >> }

\* header bytes behind a signature: every sequence over TailBytes up to MaxTail
TailBytes == { 0, 97 }
RECURSIVE TailsOf(_)
TailsOf(n) == IF n = 0 THEN { <<>> }
              ELSE TailsOf(n - 1) \cup { Append(t, b) : t \in TailsOf(n - 1), b \in TailBytes }
Tails == TailsOf(MaxTail)

Signatures == { FILE_SIGNATURES[i].signature : i \in DOMAIN FILE_SIGNATURES }
\* a signature cut short by one byte
CutSignatures == { SubSeq(g, 1, Len(g) - 1) : g \in Signatures }

\* n copies of byte b
Rep(b, n) == [i \in 1..n |-> b]

\* file contents: signatures with tails, RIFF and ftyp containers with known
\* and unknown types and brands, byte-order marks, text, text mixed with other
\* bytes around the 85% line, contents longer than the 32 bytes read
FileContents ==
    { g \o t : g \in Signatures \cup CutSignatures, t \in Tails }
    \cup { RIFF \o << 36, 0, 0, 0 >> \o k \o t :
             k \in { WAVE, AVI, << 87, 69, 66, 80 >>, << 87, 65, 86 >>, <<>> }, t \in Tails }
    \cup { lead \o ftyp \o brand :
             lead \in { << 0, 0, 0, 32 >>, << 97, 98, 99, 100 >> },
             brand \in VideoBrands \cup AudioBrands
                       \cup { << 113, 116, 32, 32 >>, << 109, 112, 52 >> } }
    \cup { << 239, 187, 191 >> \o t : t \in Tails }
    \cup { << 255, 254 >> \o t : t \in Tails }
    \cup { << 254, 255 >> \o t : t \in Tails }
    \cup { Rep(97, n) \o Rep(200, m) : n \in { 0, 5, 16, 17, 18, 28, 32 }, m \in 0..3 }
    \cup { Rep(200, 30) \o RIFF, Rep(9, 1) \o Rep(10, 1) \o Rep(13, 1), Rep(127, 2), Rep(31, 1) }

\* st_mode values: a regular file with any of these permission bits
ModeBits == { S_IWOTH, S_IXUSR, S_ISGID, S_ISUID, 1, 16, 256 }
RECURSIVE SumOf(_)
SumOf(bits) == IF bits = {} THEN 0
               ELSE LET b == CHOOSE x \in bits : TRUE IN b + SumOf(bits \ {b})
Modes == { S_IFREG + SumOf(bits) : bits \in SUBSET ModeBits }

\* arguments of _is_text_content: the empty bytes and the headers read(32) gives
HeaderData == { <<>> } \cup { ReadHeader(c) : c \in FileContents }

FnCalls ==
    { [fn |-> "parse_size", size_str |-> z] : z \in SizeStrings }
    \cup { [fn |-> "get_file_category", signatures |-> g, name |-> n, open_ok |-> o,
            content |-> c] :
             g \in BOOLEAN, n \in FileNames, o \in BOOLEAN, c \in FileContents }
    \cup { [fn |-> "check_permissions", name |-> n, mode |-> m] :
             n \in FileNames, m \in Modes }
    \cup { [fn |-> "is_text_content", data |-> d] : d \in HeaderData }

InitFn ==
    /\ pc = "fn"
    /\ argv = [ size_threshold |-> << "1", "M" >>, no_signatures |-> FALSE,
                max_large_files |-> 10, root |-> "dir" ]
    /\ exit_code = -1
    /\ exc = "none"
    /\ size_threshold = BigOf(0)
    /\ use_signatures = TRUE
    /\ max_large_files = 0
    /\ files_by_category = EmptyScanState.files_by_category
    /\ category_sizes = EmptyScanState.category_sizes
    /\ large_files = EmptyScanState.large_files
    /\ permission_issues = EmptyScanState.permission_issues
    /\ total_files = EmptyScanState.total_files
    /\ total_size = EmptyScanState.total_size
    /\ errors = EmptyScanState.errors
    /\ walked = <<>>
    /\ scan_start = 0
    /\ report = <<>>
    /\ fn_call \in FnCalls
    /\ fn_ret = <<>>

FnFrame == UNCHANGED << pc, argv, exit_code, exc, size_threshold, use_signatures,
                        max_large_files, files_by_category, category_sizes, large_files,
                        permission_issues, total_files, total_size, errors, walked, scan_start,
                        report, fn_call >>

CallParseSize ==
    /\ pc = "fn" /\ fn_ret = <<>> /\ fn_call.fn = "parse_size"
    /\ fn_ret' = << parse_size(fn_call.size_str) >>
    /\ FnFrame

CallGetFileCategory ==
    /\ pc = "fn" /\ fn_ret = <<>> /\ fn_call.fn = "get_file_category"
    /\ fn_ret' = << get_file_category(fn_call.signatures, fn_call.name, fn_call.open_ok,
                                      fn_call.content) >>
    /\ FnFrame

CallCheckPermissions ==
    /\ pc = "fn" /\ fn_ret = <<>> /\ fn_call.fn = "check_permissions"
    /\ fn_ret' = << check_permissions(fn_call.name, fn_call.mode) >>
    /\ FnFrame

CallIsTextContent ==
    /\ pc = "fn" /\ fn_ret = <<>> /\ fn_call.fn = "is_text_content"
    /\ fn_ret' = << is_text_content(fn_call.data) >>
    /\ FnFrame

NextFn == \/ CallParseSize
          \/ CallGetFileCategory
          \/ CallCheckPermissions
          \/ CallIsTextContent

SpecFn == InitFn /\ [][NextFn]_vars

-----------------------------------------------------------------------------
(* Properties *)

RECURSIVE SumOfLengths(_, _)
SumOfLengths(d, keys) ==
    IF keys = {} THEN 0
    ELSE LET k == CHOOSE x \in keys : TRUE IN Len(d[k]) + SumOfLengths(d, keys \ {k})

RECURSIVE SumOfValues(_, _)
SumOfValues(d, keys) ==
    IF keys = {} THEN 0
    ELSE LET k == CHOOSE x \in keys : TRUE IN d[k] + SumOfValues(d, keys \ {k})

\* every record of files_by_category
AcceptedRecords == UNION { { files_by_category[c][i] : i \in DOMAIN files_by_category[c] } :
                           c \in DOMAIN files_by_category }
InLargeFiles(f) == \E i \in DOMAIN large_files : large_files[i] = f

\* C1: in every state during and after analyze_directory, whatever the
\* candidates were (stat failures and skipped entries included), total_files is
\* the sum of the lengths of the category lists and total_size is the sum of
\* the category sizes.
C1_TotalsAreCategorySums ==
    /\ total_files = SumOfLengths(files_by_category, DOMAIN files_by_category)
    /\ total_size = SumOfValues(category_sizes, DOMAIN category_sizes)

\* C1 witness: a traversal of three candidates, one failing stat, has returned
\* with two records in two categories.
C1_Witness ==
    /\ pc = "scanned"
    /\ Len(walked) = 3
    /\ errors # <<>>
    /\ total_files = 2
    /\ Cardinality(DOMAIN files_by_category) = 2
    /\ total_size > 0

\* C2: an accepted record is in large_files exactly when its size is strictly
\* above the threshold; a record of the threshold's size is not in it.
C2_LargeIffAboveThreshold ==
    pc \notin { "main", "fn" } =>
        /\ IsSmall(size_threshold)
        /\ \A f \in AcceptedRecords :
               InLargeFiles(f) <=> f.size > SmallValue(size_threshold)
        /\ \A i \in DOMAIN large_files : large_files[i] \in AcceptedRecords

\* C2 witness: a record of exactly the threshold's size was accepted and is
\* not large, next to one a byte larger that is.
C2_Witness ==
    /\ pc = "walk"
    /\ \E f \in AcceptedRecords : f.size = SmallValue(size_threshold) /\ ~InLargeFiles(f)
    /\ \E f \in AcceptedRecords : f.size = SmallValue(size_threshold) + 1 /\ InLargeFiles(f)

\* the reference size parser: a plain integer is itself; a decimal number
\* followed by a unit, in any letter case, is the truncated product of the
\* number and the unit's binary multiple; anything else is a format error
ReferenceUnits == {
    [suffix |-> << "B" >>,      exp |-> 0],
    [suffix |-> << "K" >>,      exp |-> 1], [suffix |-> << "K", "B" >>, exp |-> 1],
    [suffix |-> << "M" >>,      exp |-> 2], [suffix |-> << "M", "B" >>, exp |-> 2],
    [suffix |-> << "G" >>,      exp |-> 3], [suffix |-> << "G", "B" >>, exp |-> 3],
    [suffix |-> << "T" >>,      exp |-> 4], [suffix |-> << "T", "B" >>, exp |-> 4] }
NumberBefore(t, u) == PyFloat(SubSeq(t, 1, Len(t) - Len(u.suffix)))
ReferenceParse(size_str) ==
    LET t == Upper(Strip(size_str))
        fits == { u \in ReferenceUnits :
                    EndsWith(t, u.suffix) /\ NumberBefore(t, u).kind = "finite" }
    IN  IF PyInt(t).kind = "int" THEN PyInt(t)
        ELSE IF fits # {}
             THEN LET u == CHOOSE x \in fits : TRUE
                  IN  [kind |-> "int", value |-> TruncProduct(NumberBefore(t, u), u.exp)]
        ELSE [kind |-> "ValueError"]

\* C3: parse_size agrees with the reference parser on every input: integers,
\* decimal numbers with a unit from B K KB M MB G GB T TB in any case, and a
\* ValueError for every other string.
C3_ParseSizeIsReference ==
    (fn_call # <<>> /\ fn_call.fn = "parse_size" /\ fn_ret # <<>>) =>
        fn_ret[1] = ReferenceParse(fn_call.size_str)

\* the signature-table entries the header read from a content starts with
MatchingEntries(content) ==
    { i \in DOMAIN FILE_SIGNATURES :
        StartsWith(ReadHeader(content), FILE_SIGNATURES[i].signature) }
\* the ftyp box of a header names one of the known brands
KnownFtyp(content) ==
    /\ Len(ReadHeader(content)) >= 12
    /\ SubSeq(ReadHeader(content), 5, 8) = ftyp
    /\ SubSeq(ReadHeader(content), 9, 12) \in VideoBrands \cup AudioBrands
LowerSuffix(name) == Str(Lower(PathSuffix(name)))
CategoryCall == fn_call # <<>> /\ fn_call.fn = "get_file_category" /\ fn_ret # <<>>

\* C4 as claimed: with signature detection on, a readable file whose header
\* starts with a signature-table entry gets that entry's category whatever its
\* extension; with detection off, a file gets the extension table's category
\* of its lowercased suffix (other when absent) whatever its content.
C4_TableCategoryForEverySignature ==
    CategoryCall =>
        /\ (fn_call.signatures /\ fn_call.open_ok) =>
               \A i \in MatchingEntries(fn_call.content) :
                   fn_ret[1] = FILE_SIGNATURES[i].category
        /\ ~fn_call.signatures => fn_ret[1] = ExtensionCategory(LowerSuffix(fn_call.name))

\* C4 amended: as claimed, except that a header starting with RIFF whose bytes
\* 8-12 are "AVI " is video, not the table's audio.
C4_TableCategoryExceptRiffAvi ==
    CategoryCall =>
        /\ (fn_call.signatures /\ fn_call.open_ok) =>
               \A i \in MatchingEntries(fn_call.content) :
                   fn_ret[1] = IF FILE_SIGNATURES[i].signature = RIFF
                                   /\ Len(ReadHeader(fn_call.content)) >= 12
                                   /\ SubSeq(ReadHeader(fn_call.content), 9, 12) = AVI
                                THEN "video"
                                ELSE FILE_SIGNATURES[i].category
        /\ ~fn_call.signatures => fn_ret[1] = ExtensionCategory(LowerSuffix(fn_call.name))

\* C4 witness: a file named b.DOC that starts with the PNG signature was
\* classified with detection on, and came out an image.
C4_Witness ==
    /\ CategoryCall
    /\ fn_call.signatures /\ fn_call.open_ok
    /\ fn_call.name = N_b_DOC
    /\ StartsWith(fn_call.content, << 137, 80, 78, 71, 13, 10, 26, 10 >>)
    /\ fn_ret[1] = "image"

PrintableOnly(content) == content # <<>> /\ \A i \in DOMAIN content : content[i] \in text_chars

\* C5 as claimed: with signature detection on, a file without extension whose
\* content is non-empty printable ASCII (32-126, tab, LF, CR) is text.
C5_PrintableNoExtensionIsText ==
    (CategoryCall /\ fn_call.signatures /\ fn_call.open_ok
       /\ PathSuffix(fn_call.name) = <<>> /\ PrintableOnly(fn_call.content)) =>
        fn_ret[1] = "text"

\* C5 amended: with signature detection on, a file without extension that can
\* be opened, whose content is non-empty printable ASCII and whose header
\* starts with no signature-table entry and carries no known ftyp brand, is
\* text.
C5_PrintableUnsignedNoExtensionIsText ==
    (CategoryCall /\ fn_call.signatures /\ fn_call.open_ok
       /\ PathSuffix(fn_call.name) = <<>> /\ PrintableOnly(fn_call.content)
       /\ MatchingEntries(fn_call.content) = {} /\ ~KnownFtyp(fn_call.content)) =>
        fn_ret[1] = "text"

\* C5 witness: a file named noext holding tab, LF, CR was classified with
\* detection on, and came out text.
C5_Witness ==
    /\ CategoryCall
    /\ fn_call.signatures /\ fn_call.open_ok
    /\ fn_call.name = N_noext
    /\ fn_call.content = << 9, 10, 13 >>
    /\ fn_ret[1] = "text"

\* the tags in the fixed order of the rules
TagOrder == << "world-writable", "SUID", "SGID", "suspicious-executable" >>
\* the rules that fire for a mode and a name, each on its own
FiredTags(name, mode) ==
    { t \in { "world-writable" } : mode % (2 * S_IWOTH) >= S_IWOTH }
    \cup { t \in { "SUID" } : mode % (2 * S_ISUID) >= S_ISUID }
    \cup { t \in { "SGID" } : mode % (2 * S_ISGID) >= S_ISGID }
    \cup { t \in { "suspicious-executable" } :
             /\ mode % (2 * S_IXUSR) >= S_IXUSR
             /\ LowerSuffix(name) \in { ".txt", ".log", ".conf", ".cfg", ".ini" } }
PermissionCall == fn_call # <<>> /\ fn_call.fn = "check_permissions" /\ fn_ret # <<>>

\* C6: check_permissions returns the tags whose rule fires, each rule judged
\* on its own, joined by ", " in the order world-writable, SUID, SGID,
\* suspicious-executable; it returns None exactly when no rule fires.
C6_PermissionTagsInRuleOrder ==
    PermissionCall =>
        LET fired == FiredTags(fn_call.name, fn_call.mode)
            listed == SelectSeq(TagOrder, LAMBDA t : t \in fired)
        IN  /\ (fn_ret[1] = None) <=> (fired = {})
            /\ fired # {} => fn_ret[1] = Join(", ", listed)

\* C6 witness: a set-uid, set-gid, world-writable, owner-executable run.ini was
\* audited and got all four tags.
C6_Witness ==
    /\ PermissionCall
    /\ fn_call.name = N_run
    /\ fn_ret[1] = "world-writable, SUID, SGID, suspicious-executable"

\* analyze_directory has been entered by a main whose size argument parsed
DirectoryAnalysisBegun ==
    pc \notin { "main", "constructed", "fn" } /\ parse_size(argv.size_threshold).kind = "int"

\* C7: a root that does not exist raises the directory-not-found error and a
\* root that is no directory raises the not-a-directory error; either is
\* raised before any candidate is stat'd, leaves the scan state as constructed,
\* produces no report, and the command exits with status 1.
C7_RootErrorsAbortBeforeTraversal ==
    (DirectoryAnalysisBegun /\ argv.root # "dir") =>
        /\ pc \in { "raised", "exit" }
        /\ exc = IF argv.root = "missing" THEN "FileNotFoundError" ELSE "NotADirectoryError"
        /\ walked = <<>>
        /\ ScanState = EmptyScanState
        /\ report = <<>>
        /\ pc = "exit" => exit_code = 1

\* C7 witness: the command has exited with status 1 over a root that is a
\* regular file.
C7_Witness ==
    /\ pc = "exit"
    /\ argv.root = "file"
    /\ exc = "NotADirectoryError"
    /\ exit_code = 1

\* the candidate a step of the traversal has just taken
Taken == walked'[Len(walked')]
Takes == pc = "walk" /\ Len(walked') = Len(walked) + 1

\* the outcome every walked candidate has left behind: an error entry, nothing,
\* or a record, under its own path
Processed(i) ==
    IF walked[i].stat # "ok" THEN \E e \in DOMAIN errors : errors[e] = << i, walked[i].stat >>
    ELSE IF ~S_ISREG(walked[i].mode) THEN TRUE
    ELSE \E f \in AcceptedRecords : f.path = i /\ f.size = walked[i].size

\* C8: a candidate whose stat fails adds exactly one (path, message) entry to
\* errors and no record; the counters, the category lists and sizes, the
\* large files and the permission issues stay as they were, and the traversal
\* goes on: every candidate, the later ones included, is processed.
C8_StatFailureIsLocal ==
    /\ [][ (Takes /\ Taken.stat # "ok") =>
              /\ errors' = Append(errors, << Len(walked'), Taken.stat >>)
              /\ UNCHANGED << total_files, total_size, files_by_category, category_sizes,
                              large_files, permission_issues >>
              /\ pc' = "walk" ]_vars
    /\ [](pc = "walk" => \A i \in DOMAIN walked : Processed(i))

\* C8 witness: the first candidate failed its stat, the second was accepted as
\* a record, and one error is listed.
C8_Witness ==
    /\ pc = "walk"
    /\ Len(walked) = 2
    /\ walked[1].stat # "ok"
    /\ errors = << << 1, walked[1].stat >> >>
    /\ total_files = 1
    /\ \E f \in AcceptedRecords : f.path = 2

\* C9: with signature detection on, a file whose stat succeeded and whose open
\* or read fails has the failure recorded in errors, and the scan goes on.
C9_OpenFailureIsRecorded ==
    (pc \in { "walk", "scanned" } /\ use_signatures) =>
        \A i \in DOMAIN walked :
            (walked[i].stat = "ok" /\ S_ISREG(walked[i].mode) /\ ~walked[i].open_ok) =>
                \E e \in DOMAIN errors : errors[e][1] = i

\* C10: a candidate whose stat succeeds and that is no regular file is skipped
\* in silence: no record, and the counters, the category lists and sizes, the
\* large files, the permission issues and the errors stay as they were.
C10_NonRegularIsSkipped ==
    [][ (Takes /\ Taken.stat = "ok" /\ Taken.mode \div 4096 # 8) =>
           UNCHANGED << total_files, total_size, files_by_category, category_sizes,
                        large_files, permission_issues, errors >> ]_vars

\* C10 witness: the traversal took a directory entry as a candidate after a
\* record, and still holds that one record and no error.
C10_Witness ==
    /\ pc = "walk"
    /\ Len(walked) = 2
    /\ walked[2].stat = "ok" /\ walked[2].mode = S_IFDIR + 493
    /\ total_files = 1
    /\ errors = <<>>

\* what the steps behind the signature table give a header: the ftyp check,
\* the text heuristic, then the extension table
LaterSteps(name, content) ==
    IF KnownFtyp(content)
    THEN IF SubSeq(ReadHeader(content), 9, 12) \in AudioBrands THEN "audio" ELSE "video"
    ELSE IF is_text_content(ReadHeader(content)) THEN "text"
    ELSE ExtensionCategory(LowerSuffix(name))

\* bytes 8-12 of a header, <<>> when the header is shorter than 12 bytes
RiffType(content) == IF Len(ReadHeader(content)) >= 12
                     THEN SubSeq(ReadHeader(content), 9, 12) ELSE <<>>

\* C11: a header that begins with RIFF is audio when bytes 8-12 are WAVE and
\* video when they are "AVI "; with any other bytes 8-12, or fewer than 12
\* bytes, the RIFF entry does not resolve and the file is classified by the
\* later steps (ftyp check, text heuristic, extension table).
C11_UnresolvedRiffFallsThrough ==
    (CategoryCall /\ fn_call.signatures /\ fn_call.open_ok
       /\ StartsWith(ReadHeader(fn_call.content), RIFF)) =>
        fn_ret[1] = IF RiffType(fn_call.content) = WAVE THEN "audio"
                    ELSE IF RiffType(fn_call.content) = AVI THEN "video"
                    ELSE LaterSteps(fn_call.name, fn_call.content)

BomPrefixes == { << 239, 187, 191 >>, << 255, 254 >>, << 254, 255 >> }

\* C12: _is_text_content(header) is true exactly when the header is non-empty
\* and either starts with one of the byte-order marks EF BB BF, FF FE, FE FF
\* (a header of any length) or strictly more than 85% of its bytes are in
\* {9, 10, 13, 32..126}; the empty header is not text, exactly 85% is not text.
C12_TextIffBomOrMostlyPrintable ==
    (pc = "fn" /\ fn_call.fn = "is_text_content" /\ fn_ret # <<>>) =>
        fn_ret[1] = ( /\ fn_call.data # <<>>
                      /\ \/ \E bom \in BomPrefixes : StartsWith(fn_call.data, bom)
                         \/ 20 * printable_count(fn_call.data) > 17 * Len(fn_call.data) )

\* the records of seq are in descending order of size, records of equal size
\* in ascending order of path (the position in the traversal at which the
\* record was accepted)
DescendingStable(seq) ==
    \A i, j \in DOMAIN seq :
        i < j => \/ seq[i].size > seq[j].size
                 \/ seq[i].size = seq[j].size /\ seq[i].path < seq[j].path

\* C13: once generate_report has run, the large files are in descending order
\* of size, files of equal size in the order they were accepted, and the report
\* lists them in that order.
C13_LargeFilesDescendingStable ==
    report # <<>> =>
        /\ DescendingStable(large_files)
        /\ DescendingStable(report[1].large)
        /\ \A i \in DOMAIN report[1].large :
             i <= Len(large_files) /\ report[1].large[i] = large_files[i]

\* a report of three large files, two of equal size, that were accepted in
\* another order than the listed one
C13_Witness ==
    /\ report # <<>>
    /\ Len(report[1].large) >= 2
    /\ Len(large_files) = 3
    /\ large_files[1].size = large_files[2].size
    /\ large_files[3].path < large_files[1].path

\* C14: for every integer N given as --max-large-files and every number L of
\* large files, the report lists at most N large files, the N largest, and the
\* listed count plus the K of "and K more" (0 when the line is absent) is L.
C14_ListedPlusMoreIsAll ==
    report # <<>> =>
        /\ Len(report[1].large) <= Max(max_large_files, 0)
        /\ report[1].large = SubSeq(large_files, 1, Len(report[1].large))
        /\ Len(report[1].large) + report[1].more = Len(large_files)

\* C15: generate_report leaves every field of the scan state as
\* analyze_directory left it, the order of the elements of large_files included.
C15_ReportLeavesScanStateUnchanged ==
    [][ (pc = "scanned" /\ pc' = "reported") =>
          UNCHANGED << files_by_category, category_sizes, large_files, permission_issues,
                       total_files, total_size, errors >> ]_vars

IsPrefix(a, b) == Len(a) <= Len(b) /\ SubSeq(b, 1, Len(a)) = a

\* the scan state after a step extends the scan state before it
AppendOnlyStep ==
    /\ \A c \in DOMAIN files_by_category :
         /\ c \in DOMAIN files_by_category'
         /\ IsPrefix(files_by_category[c], files_by_category'[c])
    /\ IsPrefix(large_files, large_files')
    /\ IsPrefix(permission_issues, permission_issues')
    /\ IsPrefix(errors, errors')
    /\ total_files' >= total_files
    /\ total_size' >= total_size
    /\ \A c \in DOMAIN category_sizes :
         c \in DOMAIN category_sizes' /\ category_sizes'[c] >= category_sizes[c]

\* C16: across every step of analyze_directory the scan state only grows: each
\* of files_by_category[c], large_files, permission_issues and errors before
\* the step is a prefix of itself after the step, the totals do not decrease,
\* and so no record accepted earlier is removed or changed.
C16_ScanStateIsAppendOnly ==
    [][ (pc \in { "constructed", "walk" }) => AppendOnlyStep ]_vars

\* a traversal in progress that has appended to every collection
C16_Witness ==
    /\ pc = "walk"
    /\ Len(large_files) >= 2
    /\ permission_issues # <<>>
    /\ errors # <<>>
    /\ \E c \in DOMAIN files_by_category : Len(files_by_category[c]) >= 2

\* the regular files among the candidates yielded since position n
AcceptedSince(n) ==
    Cardinality({ i \in (n + 1)..Len(walked) :
                    walked[i].stat = "ok" /\ S_ISREG(walked[i].mode) })

\* C17: every call of analyze_directory, a second call on the same analyzer
\* included, begins its traversal with total_files = 0, total_size = 0 and
\* empty files_by_category, category_sizes, large_files, permission_issues and
\* errors, so that when it returns total_files is the number of regular files
\* accepted in that one traversal.
C17_EveryScanStartsEmpty ==
    /\ [][ (pc # "walk" /\ pc' = "walk") => ScanState' = EmptyScanState ]_vars
    /\ [](pc = "scanned" => total_files = AcceptedSince(scan_start))

\* an entry whose signature is a prefix of another entry's comes after it
TableOrdered ==
    \A i, j \in DOMAIN FILE_SIGNATURES :
        (i # j /\ StartsWith(FILE_SIGNATURES[j].signature, FILE_SIGNATURES[i].signature))
            => j < i

\* of the entries a header starts with: the one listed first, the longest one
FirstMatch(content) ==
    CHOOSE i \in MatchingEntries(content) : \A j \in MatchingEntries(content) : i <= j
LongestMatch(content) ==
    CHOOSE i \in MatchingEntries(content) :
        \A j \in MatchingEntries(content) :
            Len(FILE_SIGNATURES[i].signature) >= Len(FILE_SIGNATURES[j].signature)
\* the category entry i gives a header: the table's, video for a RIFF AVI header
EntryCategory(content, i) ==
    IF FILE_SIGNATURES[i].signature = RIFF /\ RiffType(content) = AVI THEN "video"
    ELSE FILE_SIGNATURES[i].category

\* C18: of any two table entries of which one is a prefix of the other, the
\* longer one is listed first; so for every header the first entry it starts
\* with is the longest entry it starts with, and the category returned is that
\* entry's.
C18_FirstMatchIsLongestMatch ==
    /\ TableOrdered
    /\ (CategoryCall /\ fn_call.signatures /\ fn_call.open_ok
          /\ MatchingEntries(fn_call.content) # {}) =>
         /\ FirstMatch(fn_call.content) = LongestMatch(fn_call.content)
         /\ fn_ret[1] = EntryCategory(fn_call.content, LongestMatch(fn_call.content))

\* a header that starts with an entry listed behind entries sharing its first
\* two bytes (PK 05 06 behind PK 03 04), classified by that entry
C18_Witness ==
    /\ CategoryCall /\ fn_call.signatures /\ fn_call.open_ok
    /\ MatchingEntries(fn_call.content) # {}
    /\ \E j \in DOMAIN FILE_SIGNATURES :
         /\ j < FirstMatch(fn_call.content)
         /\ SubSeq(FILE_SIGNATURES[j].signature, 1, 2) = SubSeq(ReadHeader(fn_call.content), 1, 2)
    /\ fn_ret[1] = "archive"

====
